---------------------------- MODULE Spec2Model ----------------------------
(***************************************************************************)
(* Log processing pipeline (src/pipeline.py):                              *)
(*   log files on disk -> reader -> Redis list -> processor -> PostgreSQL  *)
(*                                                                         *)
(* Text is modelled as sequences of one-character strings, so that         *)
(* str.strip, str.split, the `in` test and the regular expressions of the   *)
(* parsers are computed character by character as the code computes them.   *)
(*                                                                         *)
(* Specifications:                                                         *)
(*   Spec        the reader and one processor, with restarts, a processor   *)
(*               killed and a foreign producer                             *)
(*   ReaderSpec  the reader alone over a directory that changes            *)
(*   ParseSpec   one call of a parser function on one input line           *)
(*   DbSpec      the reader and one processor, restarted when it ends,      *)
(*               with a database server that goes down and comes back      *)
(*   ConcSpec    the reader and several processors on the same queue       *)
(*   LiveReaderSpec  the reader, fairly scheduled, over a directory where   *)
(*               files appear and grow                                     *)
(*   LiveProcSpec  reader and processor, fairly scheduled, and a foreign    *)
(*               producer                                                  *)
(***************************************************************************)
EXTENDS Integers, Sequences, FiniteSets, TLC

(***************************************************************************)
(* Characters and generic string helpers                                   *)
(***************************************************************************)

\* Python's str.isspace() / regex \s, restricted to the characters used here
Whitespace == {" ", "\t"}

\* regex \d
Digits == {"0", "1", "2", "3", "4", "5", "6", "7", "8", "9"}

\* `ch in s`
Contains(s, ch) == \E i \in 1..Len(s) : s[i] = ch

\* s[pos:pos+len(w)] == w
StartsAt(s, pos, w) ==
    /\ pos + Len(w) <= Len(s)
    /\ \A i \in 1..Len(w) : s[pos + i] = w[i]

\* index of the first occurrence of ch in s, 0 when there is none
IndexOf(s, ch) ==
    IF Contains(s, ch)
    THEN CHOOSE i \in 1..Len(s) : s[i] = ch /\ \A j \in 1..(i - 1) : s[j] # ch
    ELSE 0

\* str.split(sep) for a one-character separator: all the segments
RECURSIVE split(_, _)
split(s, sep) ==
    LET i == IndexOf(s, sep)
    IN  IF i = 0 THEN << s >>
        ELSE << SubSeq(s, 1, i - 1) >> \o split(SubSeq(s, i + 1, Len(s)), sep)

\* str.split(sep, 1): the text before the first sep and the text after it
split1(s, sep) ==
    LET i == IndexOf(s, sep)
    IN  IF i = 0 THEN << s >>
        ELSE << SubSeq(s, 1, i - 1), SubSeq(s, i + 1, Len(s)) >>

\* str.lstrip(): drop leading whitespace only
lstrip_only(s) ==
    LET keep == { i \in 1..Len(s) : s[i] \notin Whitespace }
    IN  IF keep = {} THEN << >>
        ELSE SubSeq(s, CHOOSE i \in keep : \A j \in keep : i <= j, Len(s))

\* str.strip(): drop leading and trailing whitespace
strip(s) ==
    LET keep == { i \in 1..Len(s) : s[i] \notin Whitespace }
    IN  IF keep = {} THEN << >>
        ELSE LET lo == CHOOSE i \in keep : \A j \in keep : i <= j
                 hi == CHOOSE i \in keep : \A j \in keep : j <= i
             IN  SubSeq(s, lo, hi)

\* str.endswith(suffix)
endswith(s, suffix) ==
    /\ Len(suffix) <= Len(s)
    /\ SubSeq(s, Len(s) - Len(suffix) + 1, Len(s)) = suffix

(***************************************************************************)
(* Literal words of the grammars                                           *)
(***************************************************************************)
W_client   == << "c", "l", "i", "e", "n", "t" >>
W_query    == << "q", "u", "e", "r", "y", ":" >>
W_IN       == << "I", "N" >>
W_sshd     == << "s", "s", "h", "d", "[" >>
W_close    == << "]", ":" >>
W_Accepted == << "A", "c", "c", "e", "p", "t", "e", "d" >>
W_Failed   == << "F", "a", "i", "l", "e", "d" >>
W_for      == << "f", "o", "r" >>
W_from     == << "f", "r", "o", "m" >>
W_port     == << "p", "o", "r", "t" >>

\* dictionary keys and the log_type values
K_log_type      == << "l", "o", "g", "_", "t", "y", "p", "e" >>
K_timestamp     == << "t", "i", "m", "e", "s", "t", "a", "m", "p" >>
K_client_ip     == << "c", "l", "i", "e", "n", "t", "_", "i", "p" >>
K_query_domain  == << "q", "u", "e", "r", "y", "_", "d", "o", "m", "a", "i", "n" >>
K_query_type    == << "q", "u", "e", "r", "y", "_", "t", "y", "p", "e" >>
K_server_ip     == << "s", "e", "r", "v", "e", "r", "_", "i", "p" >>
K_response_code == << "r", "e", "s", "p", "o", "n", "s", "e", "_", "c", "o", "d", "e" >>
K_hostname      == << "h", "o", "s", "t", "n", "a", "m", "e" >>
K_pid           == << "p", "i", "d" >>
K_status        == << "s", "t", "a", "t", "u", "s" >>
K_auth_method   == << "a", "u", "t", "h", "_", "m", "e", "t", "h", "o", "d" >>
K_username      == << "u", "s", "e", "r", "n", "a", "m", "e" >>
K_source_ip     == << "s", "o", "u", "r", "c", "e", "_", "i", "p" >>
K_source_port   == << "s", "o", "u", "r", "c", "e", "_", "p", "o", "r", "t" >>
V_firewall      == << "f", "i", "r", "e", "w", "a", "l", "l" >>
V_dns           == << "d", "n", "s" >>
V_auth          == << "a", "u", "t", "h" >>

(***************************************************************************)
(* Regular expressions (the subset re.match is used with)                  *)
(*                                                                         *)
(* A pattern is a sequence of elements:                                    *)
(*   [op |-> "plus", cls |-> "S" | "s" | "d", cap |-> BOOLEAN]   X+         *)
(*   [op |-> "lit",  w |-> word]                                 literal    *)
(*   [op |-> "alt",  ws |-> << word, ... >>]              (w1|w2), captured *)
(* re_match anchors the pattern at the start of the string only: it         *)
(* succeeds when some prefix of the string matches.  X+ is greedy: the      *)
(* longest run is tried first and shortened on backtracking.               *)
(***************************************************************************)
InClass(ch, cls) ==
    CASE cls = "S" -> ch \notin Whitespace
      [] cls = "s" -> ch \in Whitespace
      [] cls = "d" -> ch \in Digits

\* length of the longest run of cls characters of s that starts after pos
RunLen(s, pos, cls) ==
    LET ends == { n \in 0..(Len(s) - pos) :
                      \A i \in 1..n : InClass(s[pos + i], cls) }
    IN  CHOOSE n \in ends : \A m \in ends : m <= n

\* the value parsers return when they do not match
None == [none |-> TRUE]

RECURSIVE MatchFrom(_, _, _, _, _)
RECURSIVE TryPlus(_, _, _, _, _, _)
RECURSIVE TryAlt(_, _, _, _, _, _)

\* match pat[k..] against s from offset pos; groups are the captures so far
MatchFrom(pat, k, s, pos, groups) ==
    IF k > Len(pat) THEN groups
    ELSE LET e == pat[k]
         IN  CASE e.op = "lit" ->
                    IF StartsAt(s, pos, e.w)
                    THEN MatchFrom(pat, k + 1, s, pos + Len(e.w), groups)
                    ELSE None
               [] e.op = "plus" ->
                    TryPlus(pat, k, s, pos, RunLen(s, pos, e.cls), groups)
               [] e.op = "alt" ->
                    TryAlt(pat, k, s, pos, 1, groups)

\* greedy X+: n characters first, then n - 1, ... down to 1
TryPlus(pat, k, s, pos, n, groups) ==
    IF n < 1 THEN None
    ELSE LET g == IF pat[k].cap
                  THEN Append(groups, SubSeq(s, pos + 1, pos + n))
                  ELSE groups
             r == MatchFrom(pat, k + 1, s, pos + n, g)
         IN  IF r # None THEN r
             ELSE TryPlus(pat, k, s, pos, n - 1, groups)

\* (w1|w2|...): the alternatives in order
TryAlt(pat, k, s, pos, a, groups) ==
    IF a > Len(pat[k].ws) THEN None
    ELSE LET w == pat[k].ws[a]
             r == IF StartsAt(s, pos, w)
                  THEN MatchFrom(pat, k + 1, s, pos + Len(w), Append(groups, w))
                  ELSE None
         IN  IF r # None THEN r
             ELSE TryAlt(pat, k, s, pos, a + 1, groups)

\* re.match(pat, s): the sequence of captured groups, or None
re_match(pat, s) == MatchFrom(pat, 1, s, 0, << >>)

S_cap == [op |-> "plus", cls |-> "S", cap |-> TRUE]
S_any == [op |-> "plus", cls |-> "S", cap |-> FALSE]
s_sep == [op |-> "plus", cls |-> "s", cap |-> FALSE]
d_cap == [op |-> "plus", cls |-> "d", cap |-> TRUE]
Lit(w) == [op |-> "lit", w |-> w]
Alt(ws) == [op |-> "alt", ws |-> ws]

\* the DNS pattern without the ignored token between the type and the server
DNS_PATTERN_no_flag ==
    << S_cap, s_sep, Lit(W_client), s_sep, S_cap, s_sep, Lit(W_query), s_sep,
       S_cap, s_sep, Lit(W_IN), s_sep, S_cap, s_sep,
       Lit(<< "(" >>), S_cap, Lit(<< ")" >>), s_sep, S_cap >>

\* (\S+)\s+client\s+(\S+)\s+query:\s+(\S+)\s+IN\s+(\S+)\s+\S+\s+\((\S+)\)\s+(\S+)
DNS_PATTERN ==
    << S_cap, s_sep, Lit(W_client), s_sep, S_cap, s_sep, Lit(W_query), s_sep,
       S_cap, s_sep, Lit(W_IN), s_sep, S_cap, s_sep, S_any, s_sep,
       Lit(<< "(" >>), S_cap, Lit(<< ")" >>), s_sep, S_cap >>

\* the auth pattern with any token allowed as the status
AUTH_PATTERN_any_status ==
    << S_cap, s_sep, S_cap, s_sep, Lit(W_sshd), d_cap, Lit(W_close), s_sep,
       S_cap, s_sep, S_cap, s_sep, Lit(W_for), s_sep,
       S_cap, s_sep, Lit(W_from), s_sep, S_cap, s_sep, Lit(W_port), s_sep,
       d_cap >>

\* (\S+)\s+(\S+)\s+sshd\[(\d+)\]:\s+(Accepted|Failed)\s+(\S+)\s+for\s+(\S+)\s+from\s+(\S+)\s+port\s+(\d+)
AUTH_PATTERN ==
    << S_cap, s_sep, S_cap, s_sep, Lit(W_sshd), d_cap, Lit(W_close), s_sep,
       Alt(<< W_Accepted, W_Failed >>), s_sep, S_cap, s_sep, Lit(W_for), s_sep,
       S_cap, s_sep, Lit(W_from), s_sep, S_cap, s_sep, Lit(W_port), s_sep,
       d_cap >>

(***************************************************************************)
(* Log parsing                                                             *)
(***************************************************************************)

\* parsed[key] = value on a dict (a function from keys to values)
DictSet(d, key, value) ==
    [k \in (DOMAIN d) \cup {key} |-> IF k = key THEN value ELSE d[k]]

\* the loop `for part in parts[1:]` of parse_firewall, from part i on
RECURSIVE FirewallFields(_, _, _)
FirewallFields(parsed, parts, i) ==
    IF i > Len(parts) THEN parsed
    ELSE IF Contains(parts[i], "=")
         THEN LET kv == split1(parts[i], "=")
              IN  FirewallFields(DictSet(parsed, kv[1], kv[2]), parts, i + 1)
         ELSE FirewallFields(parsed, parts, i + 1)

\* the firewall matcher that wants an "=" after the timestamp segment
parse_firewall_wants_pair(line) ==
    IF ~Contains(line, "|") \/ ~Contains(line, "=") THEN None
    ELSE LET parts == split(line, "|")
         IN  IF Len(parts) < 3 \/ ~\E i \in 2..Len(parts) : Contains(parts[i], "=")
             THEN None
             ELSE FirewallFields(
                      (K_log_type :> V_firewall) @@ (K_timestamp :> parts[1]),
                      parts, 2)

\* lines 133-145
parse_firewall(line) ==
    IF ~Contains(line, "|") \/ ~Contains(line, "=") THEN None
    ELSE LET parts == split(line, "|")
         IN  IF Len(parts) < 3 THEN None
             ELSE FirewallFields(
                      (K_log_type :> V_firewall) @@ (K_timestamp :> parts[1]),
                      parts, 2)

parse_dns(line) ==
    LET match == re_match(DNS_PATTERN, line)
    IN  IF match = None THEN None
        ELSE (K_log_type :> V_dns) @@ (K_timestamp :> match[1])
             @@ (K_client_ip :> match[2]) @@ (K_query_domain :> match[3])
             @@ (K_query_type :> match[4]) @@ (K_server_ip :> match[5])
             @@ (K_response_code :> match[6])

parse_auth(line) ==
    LET match == re_match(AUTH_PATTERN, line)
    IN  IF match = None THEN None
        ELSE (K_log_type :> V_auth) @@ (K_timestamp :> match[1])
             @@ (K_hostname :> match[2]) @@ (K_pid :> match[3])
             @@ (K_status :> match[4]) @@ (K_auth_method :> match[5])
             @@ (K_username :> match[6]) @@ (K_source_ip :> match[7])
             @@ (K_source_port :> match[8])

\* the parsers with the DNS parser first
PARSERS_dns_first == << "dns", "firewall", "auth" >>

\* PARSERS = [parse_firewall, parse_dns, parse_auth], by name
PARSERS == << "firewall", "dns", "auth" >>

RunParser(name, line) ==
    CASE name = "firewall" -> parse_firewall(line)
      [] name = "dns"      -> parse_dns(line)
      [] name = "auth"     -> parse_auth(line)

RECURSIVE ParseFrom(_, _)
ParseFrom(i, line) ==
    IF i > Len(PARSERS) THEN None
    ELSE LET result == RunParser(PARSERS[i], line)
         IN  IF result # None THEN result ELSE ParseFrom(i + 1, line)

\* try all parsers in order until one succeeds
parse_log_line(line) == ParseFrom(1, line)

(***************************************************************************)
(* JSON                                                                    *)
(*                                                                         *)
(* A JSON text is represented by the document it denotes: json_dumps wraps  *)
(* a value, json_loads unwraps it and fails (JSONDecodeError) on a text     *)
(* that denotes no document.                                               *)
(***************************************************************************)
json_dumps(obj) == [doc |-> obj]

\* a payload that is not JSON at all
NotJson == [garbage |-> TRUE]

json_valid(text) == "doc" \in DOMAIN text

json_loads(text) == text.doc

(***************************************************************************)
(* Configuration, file names and file contents                             *)
(***************************************************************************)
LOG_DIR == << "d" >>

LOG_SUFFIX == << ".", "l", "o", "g" >>

F_a   == << "a", ".", "l", "o", "g" >>
F_txt == << "a", ".", "t", "x", "t" >>
F_b   == << "b", ".", "l", "o", "g" >>

\* the names a file of the watched directory can have
Files == {F_a, F_txt, F_b}

\* code point order of the characters of the file names
CharOrder == << ".", "a", "b", "g", "l", "o", "t", "x" >>

Ord(ch) == CHOOSE i \in 1..Len(CharOrder) : CharOrder[i] = ch

\* a < b for Python strings
RECURSIVE StrLess(_, _)
StrLess(a, b) ==
    IF a = << >> THEN b # << >>
    ELSE IF b = << >> THEN FALSE
    ELSE IF a[1] # b[1] THEN Ord(a[1]) < Ord(b[1])
    ELSE StrLess(Tail(a), Tail(b))

\* sorted(names)
RECURSIVE sorted(_)
sorted(names) ==
    IF names = {} THEN << >>
    ELSE LET m == CHOOSE x \in names : \A y \in names \ {x} : StrLess(x, y)
         IN  << m >> \o sorted(names \ {m})

\* os.path.join(LOG_DIR, filename)
path_join(dir, filename) == dir \o << "/" >> \o filename

\* raw lines of log files (without the line terminator)
L_fw    == << "t", "|", "a", "=", "1", "|", "b" >>
L_pad   == << "\t", "u", "|", "a", "=", "2", "|", "c", " " >>
L_junk  == << "j", "u", "n", "k" >>
L_blank == << " ", "\t" >>
L_dns   == << "t", " ", "c", "l", "i", "e", "n", "t", " ", "i", " ", "q", "u", "e", "r", "y", ":", " ", "d", " ", "I", "N", " ", "A", " ", "+", " ", "(", "s", ")", " ", "O", "K" >>
L_auth  == << "t", " ", "h", " ", "s", "s", "h", "d", "[", "1", "]", ":", " ", "F", "a", "i", "l", "e", "d", " ", "p", " ", "f", "o", "r", " ", "u", " ", "f", "r", "o", "m", " ", "i", " ", "p", "o", "r", "t", " ", "2", " ", "x" >>

\* a firewall line with a pair whose key is log_type
L_over  == << "t", "|" >> \o K_log_type \o << "=", "d", "|", "b" >>

\* the contents a.log can have when the reader starts
InitContents ==
    { << L_pad, L_blank, L_junk >>, << L_dns, L_fw >>, << L_fw, L_fw >>,
      << L_auth >>, << L_over >> }

\* the contents b.log is created with
NewContents == { << L_fw >>, << L_junk, L_blank, L_pad >> }

\* the lines appended to an existing log file
AppendLines == { L_fw, L_blank }

\* payloads a foreign producer puts on the queue
ForeignPayloads ==
    { NotJson,
      json_dumps([line |-> L_fw]),
      json_dumps([source_file |-> F_a]) }

(***************************************************************************)
(* Bounds of the model                                                     *)
(***************************************************************************)

\* the processor instances
NumProcessors == 2

\* events from outside while the pipeline runs: a restart of the reader, a
\* processor killed, a foreign payload, a file created, appended to or
\* removed, an outage of the database server
MaxEvents == 1

Processors == 1..NumProcessors

(***************************************************************************)
(* State                                                                   *)
(***************************************************************************)
VARIABLES
    disk,             \* the watched directory: file name -> lines of the file
    queue,            \* the Redis list QUEUE_NAME, head (left end) first
    pgUp,             \* the database server accepts connections and statements
    tableExists,      \* the table logs exists
    rows,             \* the committed rows of logs, in insertion order
    rpc,              \* reader: position in the code
    processed_files,  \* reader: processed_files
    listing,          \* reader: sorted(os.listdir(LOG_DIR)) of this sweep
    ri,               \* reader: index in listing of the current filename
    fh,               \* reader: the open file (name, lines, lines read)
    line_count,       \* reader: line_count
    ppc,              \* processor p: position in the code
    attempt,          \* processor p: attempt of get_pg_connection
    slept,            \* processor p: the seconds slept by its latest get_pg_connection
    ensured,          \* history: processor p's run has completed init_db
    result,           \* processor p: the message returned by brpop, or None
    total_processed,  \* processor p: total_processed
    nextMid,          \* history: identity given to the next enqueued message
    enqueued,         \* history: the messages the reader has enqueued, in order
    lost,             \* history: messages in flight in a processor that died
    dropped,          \* history: messages dropped as unparseable
    used,             \* history: how often each bounded event has happened
    pFn,              \* parser run: the function called, "" before the call
    pLine,            \* parser run: the line given
    pResult           \* parser run: the value returned

readerVars == << rpc, processed_files, listing, ri, fh, line_count >>
procVars   == << ppc, attempt, slept, ensured, result, total_processed >>
storeVars  == << pgUp, tableExists, rows >>
histVars   == << nextMid, enqueued, lost, dropped, used >>
parseVars  == << pFn, pLine, pResult >>
vars == << disk, queue, readerVars, procVars, storeVars, histVars, parseVars >>

\* no file is open
NoFile == [name |-> << >>, lines |-> << >>, pos |-> 0, unlinked |-> FALSE]

Bump(ev) == [used EXCEPT ![ev] = @ + 1]

\* the events from outside, and the exceptions raised in the processes
OutsideEvents == {"reader_restart", "crash", "foreign", "create", "append",
                  "delete", "outage"}

Events == OutsideEvents \cup {"open_error", "decode_error"}

RECURSIVE Total(_)
Total(evs) ==
    IF evs = {} THEN 0
    ELSE LET ev == CHOOSE x \in evs : TRUE
         IN  used[ev] + Total(evs \ {ev})

\* another event from outside is within the bound
MoreEvents == Total(OutsideEvents) < MaxEvents

\* the state after construction, but for the directory and the parser run
InitProcesses ==
    /\ queue = << >>
    /\ pgUp = TRUE
    /\ tableExists = FALSE
    /\ rows = << >>
    /\ rpc = "listdir"
    /\ processed_files = {}
    /\ listing = << >>
    /\ ri = 1
    /\ fh = NoFile
    /\ line_count = 0
    /\ ppc = [p \in Processors |-> "connect"]
    /\ attempt = [p \in Processors |-> 0]
    /\ slept = [p \in Processors |-> << >>]
    /\ ensured = [p \in Processors |-> FALSE]
    /\ result = [p \in Processors |-> None]
    /\ total_processed = [p \in Processors |-> 0]
    /\ nextMid = 1
    /\ enqueued = << >>
    /\ lost = {}
    /\ dropped = {}
    /\ used = [ev \in Events |-> 0]

Init ==
    /\ \E c \in InitContents : disk = (F_a :> c) @@ (F_txt :> << L_fw >>)
    /\ InitProcesses
    /\ pFn = ""
    /\ pLine = << >>
    /\ pResult = None

(***************************************************************************)
(* Queue client (redis-py)                                                 *)
(***************************************************************************)

\* push on the right end, the end brpop takes from
rpush(q, message) == q \o << message >>

\* r.lpush(QUEUE_NAME, message): push on the left end
lpush(q, message) == << message >> \o q

\* brpop reports a timeout whatever the list holds
brpop_value_timeout(q) == None

\* brpop hands out the left end while the right end is removed
brpop_value_left(q) == IF q = << >> THEN None ELSE q[1]

\* r.brpop(QUEUE_NAME, timeout=1): the right end, None after the timeout
brpop_value(q) == IF q = << >> THEN None ELSE q[Len(q)]

\* the right end and its neighbour are removed
brpop_rest_two(q) == IF Len(q) < 2 THEN << >> ELSE SubSeq(q, 1, Len(q) - 2)

\* the right end is read but not removed
brpop_rest_peek(q) == q

\* the list after brpop
brpop_rest(q) == IF q = << >> THEN q ELSE SubSeq(q, 1, Len(q) - 1)

(***************************************************************************)
(* Reader                                                                  *)
(***************************************************************************)

\* the message with the path of the file as source_file
Message_with_path(line, filename) ==
    json_dumps([line |-> line, source_file |-> path_join(LOG_DIR, filename)])

\* the message built for one stripped line
Message(line, filename) ==
    json_dumps([line |-> line, source_file |-> filename])

\* line 236: os.listdir and sorted, the start of a sweep
ReaderListdir ==
    /\ rpc = "listdir"
    /\ listing' = sorted(DOMAIN disk)
    /\ ri' = 1
    /\ rpc' = "for_file"
    /\ UNCHANGED << disk, queue, processed_files, fh, line_count,
                    procVars, storeVars, histVars, parseVars >>

\* no file counts as processed
AlreadyProcessed_never(filepath, done) == FALSE

\* line 238: `filepath in processed_files`
AlreadyProcessed(filepath, done) == filepath \in done

\* lines 236-244: the next filename of the sweep: skipped, or opened.
\* open() raises when the file is gone (or on any other I/O error);
\* nothing catches the exception and the reader process terminates.
ReaderNextFile ==
    /\ rpc = "for_file"
    /\ IF ri > Len(listing)
       THEN /\ rpc' = "sleep"
            /\ UNCHANGED << ri, fh, line_count, used >>
       ELSE LET filename == listing[ri]
                filepath == path_join(LOG_DIR, filename)
            IN  IF AlreadyProcessed(filepath, processed_files)
                      \/ ~endswith(filename, LOG_SUFFIX)
                THEN /\ ri' = ri + 1
                     /\ UNCHANGED << rpc, fh, line_count, used >>
                ELSE /\ line_count' = 0
                     /\ \/ /\ filename \in DOMAIN disk
                           /\ fh' = [name |-> filename, lines |-> disk[filename],
                                     pos |-> 0, unlinked |-> FALSE]
                           /\ rpc' = "read"
                           /\ UNCHANGED << ri, used >>
                        \/ /\ filename \notin DOMAIN disk
                           /\ fh' = NoFile
                           /\ rpc' = "dead"
                           /\ used' = Bump("open_error")
                           /\ UNCHANGED ri
    /\ UNCHANGED << disk, queue, processed_files, listing, procVars, storeVars,
                    nextMid, enqueued, lost, dropped, parseVars >>

\* lines 245-258: one iteration of `for line in f`
ReaderReadLine ==
    /\ rpc = "read"
    /\ fh.pos < Len(fh.lines)
    /\ LET line == strip(fh.lines[fh.pos + 1])
       IN  /\ fh' = [fh EXCEPT !.pos = @ + 1]
           /\ IF line = << >>
              THEN UNCHANGED << queue, line_count, nextMid, enqueued >>
              ELSE /\ queue' = lpush(queue, [payload |-> Message(line, fh.name),
                                             mid |-> nextMid])
                   /\ enqueued' = Append(enqueued,
                                         [mid |-> nextMid,
                                          payload |-> Message(line, fh.name),
                                          lineno |-> fh.pos + 1,
                                          run |-> used["reader_restart"]])
                   /\ nextMid' = nextMid + 1
                   /\ line_count' = line_count + 1
    /\ UNCHANGED << disk, rpc, processed_files, listing, ri, procVars, storeVars,
                    lost, dropped, used, parseVars >>

\* the file is not recorded
processed_files_unchanged(done, filepath) == done

\* line 260: processed_files.add(filepath)
processed_files_add(done, filepath) == done \cup {filepath}

\* lines 245, 260: the file is exhausted, closed and marked as processed
ReaderEndOfFile ==
    /\ rpc = "read"
    /\ fh.pos >= Len(fh.lines)
    /\ processed_files' = processed_files_add(processed_files, path_join(LOG_DIR, fh.name))
    /\ fh' = NoFile
    /\ ri' = ri + 1
    /\ rpc' = "for_file"
    /\ UNCHANGED << disk, queue, listing, line_count, procVars, storeVars,
                    histVars, parseVars >>

\* the reader returns after its sweep
AfterSleep_returns == "dead"

\* line 235: `while True`, the statement after the sleep is the next listdir
AfterSleep == "listdir"

\* line 264: time.sleep(1), then the next sweep
ReaderSleep ==
    /\ rpc = "sleep"
    /\ rpc' = AfterSleep
    /\ UNCHANGED << disk, queue, processed_files, listing, ri, fh, line_count,
                    procVars, storeVars, histVars, parseVars >>

\* a restart that finds processed_files as the last run left it
ReaderRestart_keeps_progress ==
    /\ MoreEvents
    /\ used' = Bump("reader_restart")
    /\ rpc' = "listdir"
    /\ listing' = << >>
    /\ ri' = 1
    /\ fh' = NoFile
    /\ line_count' = 0
    /\ UNCHANGED << disk, queue, processed_files, procVars, storeVars, nextMid,
                    enqueued, lost, dropped, parseVars >>

\* the reader process is stopped and started again: lines 230-231
ReaderRestart ==
    /\ MoreEvents
    /\ used' = Bump("reader_restart")
    /\ rpc' = "listdir"
    /\ processed_files' = {}
    /\ listing' = << >>
    /\ ri' = 1
    /\ fh' = NoFile
    /\ line_count' = 0
    /\ UNCHANGED << disk, queue, procVars, storeVars, nextMid, enqueued, lost,
                    dropped, parseVars >>

Reader ==
    \/ ReaderListdir
    \/ ReaderNextFile
    \/ ReaderReadLine
    \/ ReaderEndOfFile
    \/ ReaderSleep

(***************************************************************************)
(* Store client (psycopg2) and processor                                   *)
(***************************************************************************)

\* one attempt more than the loop makes
PG_ATTEMPTS_six == 5 + 1

\* range(5) of get_pg_connection
PG_ATTEMPTS == 5

\* dict.get(key)
dict_get(d, key) == IF key \in DOMAIN d THEN d[key] ELSE None

\* the row with the values of raw_line and source_file in each other's place
StoredRow_swapped(id, parsed, line, source_file, mid) ==
    [id |-> id,
     log_type |-> dict_get(parsed, K_log_type),
     raw_line |-> source_file,
     timestamp |-> dict_get(parsed, K_timestamp),
     source_file |-> line,
     parsed_data |-> json_dumps(parsed),
     mid |-> mid]

\* the row with a log_type column that is not taken from the parsed record
StoredRow_fixed_log_type(id, parsed, line, source_file, mid) ==
    [id |-> id,
     log_type |-> V_firewall,
     raw_line |-> line,
     timestamp |-> dict_get(parsed, K_timestamp),
     source_file |-> source_file,
     parsed_data |-> json_dumps(parsed),
     mid |-> mid]

\* the row of the INSERT of lines 310-320; id is the SERIAL column
StoredRow(id, parsed, line, source_file, mid) ==
    [id |-> id,
     log_type |-> dict_get(parsed, K_log_type),
     raw_line |-> line,
     timestamp |-> dict_get(parsed, K_timestamp),
     source_file |-> source_file,
     parsed_data |-> json_dumps(parsed),
     mid |-> mid]

\* processor() without its call of init_db
AfterConnect_skips_init_db(pc) == "brpop"

\* the statement after a successful get_pg_connection
AfterConnect(pc) == IF pc = "connect" THEN "init_connect" ELSE "init_create"

\* time.sleep(2) of get_pg_connection
PG_RETRY_SLEEP == 2

\* the sleeps of the call of get_pg_connection that p is in: none yet when
\* the call makes its first attempt
SleptInCall(p) == IF attempt[p] = 0 THEN << >> ELSE slept[p]

\* lines 75-85: one attempt of get_pg_connection, called at line 283
\* (ppc = "connect") and by init_db at line 102 (ppc = "init_connect");
\* a failed attempt other than the last is followed by its sleep
get_pg_connection(p) ==
    /\ ppc[p] \in {"connect", "init_connect"}
    /\ IF pgUp
       THEN /\ ppc' = [ppc EXCEPT ![p] = AfterConnect(ppc[p])]
            /\ attempt' = [attempt EXCEPT ![p] = 0]
            /\ slept' = [slept EXCEPT ![p] = SleptInCall(p)]
       ELSE IF attempt[p] < PG_ATTEMPTS - 1
            THEN /\ attempt' = [attempt EXCEPT ![p] = @ + 1]
                 /\ slept' = [slept EXCEPT ![p] = Append(SleptInCall(p), PG_RETRY_SLEEP)]
                 /\ UNCHANGED ppc
            ELSE /\ ppc' = [ppc EXCEPT ![p] = "dead"]
                 /\ slept' = [slept EXCEPT ![p] = SleptInCall(p)]
                 /\ UNCHANGED attempt
    /\ UNCHANGED << disk, queue, readerVars, ensured, result, total_processed,
                    storeVars, histVars, parseVars >>

\* the table is dropped and created anew
create_table_or_replace(exists, stored) == << >>

\* lines 104-114: the rows of logs after CREATE TABLE IF NOT EXISTS, given
\* whether the table exists and what it holds
create_table_if_not_exists(exists, stored) == IF exists THEN stored ELSE << >>

\* lines 103-117: CREATE TABLE IF NOT EXISTS logs, commit
init_db(p) ==
    /\ ppc[p] = "init_create"
    /\ IF pgUp
       THEN /\ tableExists' = TRUE
            /\ rows' = create_table_if_not_exists(tableExists, rows)
            /\ ensured' = [ensured EXCEPT ![p] = TRUE]
            /\ ppc' = [ppc EXCEPT ![p] = "brpop"]
       ELSE /\ ppc' = [ppc EXCEPT ![p] = "dead"]
            /\ UNCHANGED << tableExists, rows, ensured >>
    /\ UNCHANGED << disk, queue, readerVars, attempt, slept, result, total_processed,
                    pgUp, histVars, parseVars >>

\* line 291: result = r.brpop(QUEUE_NAME, timeout=1)
ProcessorBrpop(p) ==
    /\ ppc[p] = "brpop"
    /\ result' = [result EXCEPT ![p] = brpop_value(queue)]
    /\ queue' = brpop_rest(queue)
    /\ ppc' = [ppc EXCEPT ![p] = "got"]
    /\ UNCHANGED << disk, readerVars, attempt, slept, ensured, total_processed, storeVars,
                    histVars, parseVars >>

\* the payload decodes to an object with the keys line and source_file
Decodable(raw_message) ==
    /\ json_valid(raw_message)
    /\ {"line", "source_file"} \subseteq DOMAIN json_loads(raw_message)

\* an unparseable line raises instead of being skipped
Outcome_raises_on_unparseable(raw_message) ==
    IF ~Decodable(raw_message) THEN "raise"
    ELSE IF parse_log_line(json_loads(raw_message).line) = None THEN "raise"
    ELSE "insert"

\* lines 297-306: what becomes of a dequeued payload: json.loads or
\* data[...] raises, the line is unparseable (continue), or it is inserted
Outcome(raw_message) ==
    IF ~Decodable(raw_message) THEN "raise"
    ELSE IF parse_log_line(json_loads(raw_message).line) = None THEN "continue"
    ELSE "insert"

\* a timeout ends the processor
AfterTimeout_terminates == "dead"

\* lines 293-294: `if result is None: continue`, back to brpop
AfterTimeout == "brpop"

\* lines 293-324: the rest of one iteration of the loop.  An exception
\* (json.loads, data[...], execute, commit) is caught nowhere and
\* terminates the processor process.
ProcessorHandle(p) ==
    /\ ppc[p] = "got"
    /\ IF result[p] = None
       THEN /\ ppc' = [ppc EXCEPT ![p] = AfterTimeout]
            /\ UNCHANGED << result, total_processed, rows, lost, dropped, used >>
       ELSE LET raw_message == result[p].payload
                mid == result[p].mid
                todo == Outcome(raw_message)
            IN  /\ result' = [result EXCEPT ![p] = None]
                /\ CASE todo = "raise" ->
                          /\ ppc' = [ppc EXCEPT ![p] = "dead"]
                          /\ lost' = lost \cup {mid}
                          /\ used' = Bump("decode_error")
                          /\ UNCHANGED << total_processed, rows, dropped >>
                     [] todo = "continue" ->
                          /\ ppc' = [ppc EXCEPT ![p] = "brpop"]
                          /\ dropped' = dropped \cup {mid}
                          /\ UNCHANGED << total_processed, rows, lost, used >>
                     [] todo = "insert" ->
                          LET data == json_loads(raw_message)
                              line == data.line
                              source_file == data.source_file
                              parsed == parse_log_line(line)
                          IN  IF pgUp /\ tableExists
                              THEN /\ rows' = Append(rows,
                                          StoredRow(Len(rows) + 1, parsed, line,
                                                    source_file, mid))
                                   /\ total_processed' =
                                          [total_processed EXCEPT ![p] = @ + 1]
                                   /\ ppc' = [ppc EXCEPT ![p] = "brpop"]
                                   /\ UNCHANGED << lost, dropped, used >>
                              ELSE /\ ppc' = [ppc EXCEPT ![p] = "dead"]
                                   /\ lost' = lost \cup {mid}
                                   /\ UNCHANGED << total_processed, rows, dropped,
                                                   used >>
    /\ UNCHANGED << disk, queue, readerVars, attempt, slept, ensured, pgUp, tableExists,
                    nextMid, enqueued, parseVars >>

\* the processor process is killed: whatever it holds in memory is gone
ProcessorCrash(p) ==
    /\ ppc[p] # "dead"
    /\ MoreEvents
    /\ used' = Bump("crash")
    /\ ppc' = [ppc EXCEPT ![p] = "dead"]
    /\ lost' = IF result[p] = None THEN lost ELSE lost \cup {result[p].mid}
    /\ result' = [result EXCEPT ![p] = None]
    /\ UNCHANGED << disk, queue, readerVars, attempt, slept, ensured, total_processed, storeVars,
                    nextMid, enqueued, dropped, parseVars >>

\* a terminated processor process is started again: lines 282-287
ProcessorRestart(p) ==
    /\ ppc[p] = "dead"
    /\ ppc' = [ppc EXCEPT ![p] = "connect"]
    /\ attempt' = [attempt EXCEPT ![p] = 0]
    /\ slept' = [slept EXCEPT ![p] = << >>]
    /\ ensured' = [ensured EXCEPT ![p] = FALSE]
    /\ result' = [result EXCEPT ![p] = None]
    /\ total_processed' = [total_processed EXCEPT ![p] = 0]
    /\ UNCHANGED << disk, queue, readerVars, storeVars, histVars, parseVars >>

Processor(p) ==
    \/ get_pg_connection(p)
    \/ init_db(p)
    \/ ProcessorBrpop(p)
    \/ ProcessorHandle(p)

(***************************************************************************)
(* Environment: the directory, foreign producers, the database server      *)
(***************************************************************************)

\* a new file appears in the watched directory
CreateFile(f, c) ==
    /\ f \notin DOMAIN disk
    /\ MoreEvents
    /\ used' = Bump("create")
    /\ disk' = disk @@ (f :> c)
    /\ UNCHANGED << queue, readerVars, procVars, storeVars, nextMid, enqueued,
                    lost, dropped, parseVars >>

\* a line is appended to a file; an open file object sees it as well
AppendLine(f, l) ==
    /\ f \in DOMAIN disk
    /\ MoreEvents
    /\ used' = Bump("append")
    /\ disk' = [disk EXCEPT ![f] = Append(@, l)]
    /\ fh' = IF rpc = "read" /\ fh.name = f /\ ~fh.unlinked
             THEN [fh EXCEPT !.lines = Append(@, l)]
             ELSE fh
    /\ UNCHANGED << queue, rpc, processed_files, listing, ri, line_count,
                    procVars, storeVars, nextMid, enqueued, lost, dropped,
                    parseVars >>

\* a file is removed; an open file object keeps its data (POSIX unlink)
DeleteFile(f) ==
    /\ f \in DOMAIN disk
    /\ MoreEvents
    /\ used' = Bump("delete")
    /\ disk' = [g \in (DOMAIN disk) \ {f} |-> disk[g]]
    /\ fh' = IF rpc = "read" /\ fh.name = f
             THEN [fh EXCEPT !.unlinked = TRUE]
             ELSE fh
    /\ UNCHANGED << queue, rpc, processed_files, listing, ri, line_count,
                    procVars, storeVars, nextMid, enqueued, lost, dropped,
                    parseVars >>

\* another client of the broker pushes a payload on the list
ForeignPush(payload) ==
    /\ MoreEvents
    /\ used' = Bump("foreign")
    /\ queue' = lpush(queue, [payload |-> payload, mid |-> nextMid])
    /\ nextMid' = nextMid + 1
    /\ UNCHANGED << disk, readerVars, procVars, storeVars, enqueued, lost,
                    dropped, parseVars >>

\* the database server goes down
PgDown ==
    /\ pgUp
    /\ MoreEvents
    /\ used' = Bump("outage")
    /\ pgUp' = FALSE
    /\ UNCHANGED << disk, queue, readerVars, procVars, tableExists, rows,
                    nextMid, enqueued, lost, dropped, parseVars >>

\* the database server comes back
PgBack ==
    /\ ~pgUp
    /\ pgUp' = TRUE
    /\ UNCHANGED << disk, queue, readerVars, procVars, tableExists, rows,
                    histVars, parseVars >>

DiskChange ==
    \/ \E f \in Files, c \in NewContents : CreateFile(f, c)
    \/ \E f \in Files, l \in AppendLines : AppendLine(f, l)
    \/ \E f \in Files : DeleteFile(f)

(***************************************************************************)
(* Specifications                                                          *)
(***************************************************************************)

\* the pipeline: the reader, one processor, process crashes and restarts
\* and a foreign producer, over a directory that does not change
Next ==
    \/ Reader
    \/ ReaderRestart
    \/ Processor(1)
    \/ ProcessorCrash(1)
    \/ ProcessorRestart(1)
    \/ \E payload \in ForeignPayloads : ForeignPush(payload)

Spec == Init /\ [][Next]_vars

\* the reader alone over a directory that changes while it runs
ReaderNext ==
    \/ Reader
    \/ ReaderRestart
    \/ DiskChange

ReaderSpec == Init /\ [][ReaderNext]_vars

\* the reader and one processor, restarted whenever it has terminated, with
\* a database server that goes down and comes back
DbNext ==
    \/ Reader
    \/ Processor(1)
    \/ ProcessorRestart(1)
    \/ PgDown
    \/ PgBack

DbSpec == Init /\ [][DbNext]_vars

\* the reader over a directory where files appear and grow and no I/O error
\* occurs.  The reader is one sequential process that the operating system
\* keeps scheduling: whenever it has a next step it eventually takes it.
LiveReaderNext ==
    \/ Reader
    \/ \E f \in Files, c \in NewContents : CreateFile(f, c)
    \/ \E f \in Files, l \in AppendLines : AppendLine(f, l)

LiveReaderSpec == Init /\ [][LiveReaderNext]_vars /\ WF_vars(Reader)

\* the reader, one processor and a foreign producer, with the store and the
\* broker reachable and nobody killed.  Reader and processor are sequential
\* processes that the operating system keeps scheduling.
LiveProcNext ==
    \/ Reader
    \/ Processor(1)
    \/ \E payload \in ForeignPayloads : ForeignPush(payload)

\* processor p, not terminated, moves on to another statement: what each
\* of its steps does while the store is reachable
ProcessorAdvances(p) ==
    /\ ppc[p] # "dead"
    /\ \E pc \in {"connect", "init_connect", "init_create", "brpop", "got", "dead"} :
           /\ pc # ppc[p]
           /\ ppc' = [ppc EXCEPT ![p] = pc]

LiveProcSpec ==
    Init /\ [][LiveProcNext]_vars /\ WF_vars(Reader) /\ WF_ppc(ProcessorAdvances(1))

\* the reader and several processors on the same queue, none of them killed
ConcNext ==
    \/ Reader
    \/ \E p \in Processors : Processor(p)

ConcSpec == Init /\ [][ConcNext]_vars


(***************************************************************************)
(* Parser runs: one call of a parser function on one input line            *)
(***************************************************************************)

\* segments of the firewall-like input lines
MaxSegments == 3

\* extra tokens after the last token of the DNS-like and auth-like lines
MaxExtraTokens == 1

FwSegments ==
    { << "t" >>, << >>, << "a", "=", "1" >>, << "a", "=", "2" >>, << "b" >>, << "=" >>,
      K_timestamp \o << "=", "x" >>, K_log_type \o << "=", "d" >> }

RECURSIVE Join(_, _)
Join(parts, sep) ==
    IF parts = << >> THEN << >>
    ELSE IF Len(parts) = 1 THEN parts[1]
    ELSE parts[1] \o sep \o Join(Tail(parts), sep)

SeqsUpTo(S, n) == UNION { [1..k -> S] : k \in 1..n }

FwLines == { Join(segs, << "|" >>) : segs \in SeqsUpTo(FwSegments, MaxSegments) }

DnsBase ==
    << << "t" >>, W_client, << "i" >>, W_query, << "d" >>, W_IN, << "A" >>, << "+" >>, << "(", "s", ")" >>, << "O", "K" >> >>

AuthBase ==
    << << "t" >>, << "h" >>, W_sshd \o << "1" >> \o W_close, W_Accepted, << "p" >>, W_for, << "u" >>,
       W_from, << "i" >>, W_port, << "2" >> >>

\* a token that makes the line a firewall line as well
T_fw == << "t", "|", "a", "=", "1", "|", "b" >>

DnsAltTokens == { << "x" >>, T_fw, << "(", "s", ")", "x" >>, << "(", ")" >>, << "(", "(", "s", ")", ")" >>, W_client }

AuthAltTokens ==
    { << "x" >>, T_fw, W_Failed, << "I", "n", "v", "a", "l", "i", "d" >>, W_sshd \o W_close,
      W_sshd \o << "1", "a" >> \o W_close, << "2", "x" >> }

Separators == { << " " >>, << " ", "\t" >> }

\* n extra tokens
RECURSIVE ExtraTokens(_)
ExtraTokens(n) == IF n = 0 THEN << >> ELSE << " ", "x" >> \o ExtraTokens(n - 1)

Suffixes ==
    { << " " >>, << "|", "a", "=", "1", "|", "b" >> }
        \cup { ExtraTokens(n) : n \in 0..MaxExtraTokens }

Prefixes == { << >>, << " " >> }

\* base itself and the token sequences that differ from it in one place:
\* a token replaced by one of alts, or a token dropped
OneEdit(base, alts) ==
    { base }
        \cup { [base EXCEPT ![k] = w] : k \in 1..Len(base), w \in alts }
        \cup { SubSeq(base, 1, k - 1) \o SubSeq(base, k + 1, Len(base)) :
                   k \in 1..Len(base) }

TokenLines(base, alts) ==
    { pre \o Join(toks, sep) \o suf :
          pre \in Prefixes, toks \in OneEdit(base, alts),
          sep \in Separators, suf \in Suffixes }

\* auth lines with a status the pattern does not know and a field (auth
\* method, user name, source address) that holds | and =
AuthOtherStatusLines ==
    { Join([[AuthBase EXCEPT ![4] = st] EXCEPT ![k] = T_fw], << " " >>) :
          st \in { << "I", "n", "v", "a", "l", "i", "d" >>, W_Accepted \o << "x" >> },
          k \in { 5, 7, 9 } }

ParseInputs ==
    FwLines \cup TokenLines(DnsBase, DnsAltTokens)
            \cup TokenLines(AuthBase, AuthAltTokens)
            \cup AuthOtherStatusLines
            \cup { << >>, L_junk }

ParseInit ==
    /\ disk = << >>
    /\ InitProcesses
    /\ pFn = ""
    /\ pLine \in ParseInputs
    /\ pResult = None

\* parser(line) for one of the three parsers
CallParser(name) ==
    /\ pFn = ""
    /\ pFn' = name
    /\ pResult' = RunParser(name, pLine)
    /\ UNCHANGED << disk, queue, readerVars, procVars, storeVars, histVars, pLine >>

\* parse_log_line(line)
CallParseLogLine ==
    /\ pFn = ""
    /\ pFn' = "parse_log_line"
    /\ pResult' = parse_log_line(pLine)
    /\ UNCHANGED << disk, queue, readerVars, procVars, storeVars, histVars, pLine >>

ParseNext ==
    \/ CallParser("firewall")
    \/ CallParser("dns")
    \/ CallParser("auth")
    \/ CallParseLogLine

ParseSpec == ParseInit /\ [][ParseNext]_vars

(***************************************************************************)
(* Properties of the parser (ParseSpec)                                    *)
(***************************************************************************)

\* the whitespace-separated tokens of s from offset pos on
RECURSIVE TokensFrom(_, _)
TokensFrom(s, pos) ==
    IF pos >= Len(s) THEN << >>
    ELSE IF s[pos + 1] \in Whitespace THEN TokensFrom(s, pos + 1)
    ELSE LET n == RunLen(s, pos, "S")
         IN  << SubSeq(s, pos + 1, pos + n) >> \o TokensFrom(s, pos + n)

Tokens(s) == TokensFrom(s, 0)

\* C8: parse_log_line returns the result of the first of firewall, DNS, auth
\* that accepts the line, and None exactly when all three reject it; so a
\* line the firewall matcher accepts gets the firewall matcher's result even
\* when the DNS or auth matcher accepts it too.
C8_FirstMatchWins ==
    pFn = "parse_log_line" =>
        LET fw   == parse_firewall(pLine)
            dns  == parse_dns(pLine)
            auth == parse_auth(pLine)
        IN  /\ pResult = (IF fw # None THEN fw ELSE IF dns # None THEN dns ELSE auth)
            /\ (pResult = None) <=> (fw = None /\ dns = None /\ auth = None)

\* a line both the firewall and the DNS matcher accept, with different results
C8_Witness ==
    /\ pFn = "parse_log_line"
    /\ parse_firewall(pLine) # None
    /\ parse_dns(pLine) # None
    /\ parse_firewall(pLine) # parse_dns(pLine)
    /\ pResult = parse_firewall(pLine)

\* the firewall grammar: a timestamp segment and at least two further
\* segments, each of them key=value
FirewallGrammar(line) ==
    LET parts == split(line, "|")
    IN  /\ strip(line) # << >>
        /\ Len(parts) >= 3
        /\ \A i \in 2..Len(parts) : Contains(parts[i], "=")

\* the values the line gives for key, one per key=value segment with that key
ValuesOf(parts, key) ==
    { split1(parts[i], "=")[2] :
          i \in { j \in 2..Len(parts) : split1(parts[j], "=")[1] = key } }

\* C9: for a line of the firewall grammar the firewall matcher returns
\* log_type firewall, the first segment as timestamp, and for every
\* key=value segment an entry under that key holding a value the line
\* gives for that key.
C9_FirewallFields ==
    (pFn = "firewall" /\ FirewallGrammar(pLine)) =>
        /\ pResult # None
        /\ LET parts == split(pLine, "|")
           IN  /\ dict_get(pResult, K_log_type) = V_firewall
               /\ dict_get(pResult, K_timestamp) = parts[1]
               /\ \A i \in 2..Len(parts) :
                      LET key == split1(parts[i], "=")[1]
                      IN  /\ key \in DOMAIN pResult
                          /\ pResult[key] \in ValuesOf(parts, key)

\* a prefix of the line is a line of the DNS grammar: ten tokens
\* <timestamp> client <ip> query: <domain> IN <type> <token> (<server>) <code>
DnsGrammarPrefix(line) ==
    LET toks == Tokens(line)
    IN  /\ line # << >>
        /\ line[1] \notin Whitespace
        /\ Len(toks) >= 10
        /\ toks[2] = W_client
        /\ toks[4] = W_query
        /\ toks[6] = W_IN
        /\ Len(toks[9]) >= 3
        /\ toks[9][1] = "("
        /\ toks[9][Len(toks[9])] = ")"

\* the whole line is a line of the DNS grammar
DnsGrammarExact(line) ==
    /\ DnsGrammarPrefix(line)
    /\ Len(Tokens(line)) = 10
    /\ line[Len(line)] \notin Whitespace

\* C10 as stated: the DNS matcher accepts a line only if the whole line is a
\* line of the DNS grammar (nothing missing, nothing extra).
C10_WholeLineOnly ==
    (pFn = "dns" /\ pResult # None) => DnsGrammarExact(pLine)

\* C10 amended: the DNS matcher accepts a line exactly when a prefix of the
\* line is a line of the DNS grammar; then it returns the tokens at their
\* grammar positions, whatever follows the response code.
C10_PrefixOnly ==
    pFn = "dns" =>
        /\ (pResult # None) <=> DnsGrammarPrefix(pLine)
        /\ pResult # None =>
               LET toks == Tokens(pLine)
               IN  pResult =
                       [k \in {K_log_type, K_timestamp, K_client_ip, K_query_domain,
                               K_query_type, K_server_ip, K_response_code} |->
                           CASE k = K_log_type      -> V_dns
                             [] k = K_timestamp     -> toks[1]
                             [] k = K_client_ip     -> toks[3]
                             [] k = K_query_domain  -> toks[5]
                             [] k = K_query_type    -> toks[7]
                             [] k = K_server_ip     ->
                                    SubSeq(toks[9], 2, Len(toks[9]) - 1)
                             [] k = K_response_code -> toks[10]]

\* the DNS matcher has accepted a line with text after the response code
C10_Witness ==
    /\ pFn = "dns"
    /\ pResult # None
    /\ Len(Tokens(pLine)) > 10

(***************************************************************************)
(* Properties of the reader (ReaderSpec) and of the pipeline (Spec)        *)
(***************************************************************************)

\* s without its leading and trailing whitespace
RECURSIVE Trimmed(_)
Trimmed(s) ==
    IF s = << >> THEN s
    ELSE IF s[1] \in Whitespace THEN Trimmed(Tail(s))
    ELSE IF s[Len(s)] \in Whitespace THEN Trimmed(SubSeq(s, 1, Len(s) - 1))
    ELSE s

\* the lines of a file that are not blank, trimmed, in file order
RECURSIVE NonBlankTrimmed(_)
NonBlankTrimmed(lines) ==
    IF lines = << >> THEN << >>
    ELSE LET t == Trimmed(lines[1])
         IN  (IF t = << >> THEN << >> ELSE << t >>) \o NonBlankTrimmed(Tail(lines))

EntryLine(e) == json_loads(e.payload).line

EntryFile(e) == json_loads(e.payload).source_file

\* the lines of the messages enqueued with source_file f, in enqueue order
RECURSIVE LinesEnqueued(_, _)
LinesEnqueued(log, f) ==
    IF log = << >> THEN << >>
    ELSE (IF EntryFile(log[1]) = f THEN << EntryLine(log[1]) >> ELSE << >>)
         \o LinesEnqueued(Tail(log), f)

\* how many raw lines of f the reader has consumed
LinesRead(f) ==
    IF path_join(LOG_DIR, f) \in processed_files THEN Len(disk[f])
    ELSE IF rpc = "read" /\ fh.name = f THEN fh.pos
    ELSE 0

\* the reader has run without restart and without I/O error, and no file
\* has been appended to or removed
UndisturbedReader ==
    /\ used["reader_restart"] = 0
    /\ used["open_error"] = 0
    /\ used["append"] = 0
    /\ used["delete"] = 0

\* C1: without restart and I/O error, the messages enqueued for a .log file
\* are the non-blank lines the reader has read of it, trimmed, one message
\* per line and in file order; for a file marked processed, all its lines.
C1_MessagesAreFileLines ==
    UndisturbedReader =>
        \A f \in DOMAIN disk :
            endswith(f, LOG_SUFFIX) =>
                LinesEnqueued(enqueued, f)
                    = NonBlankTrimmed(SubSeq(disk[f], 1, LinesRead(f)))

\* a file with a padded line, a blank line and a third line is processed
C1_Witness ==
    /\ UndisturbedReader
    /\ path_join(LOG_DIR, F_a) \in processed_files
    /\ disk[F_a] = << L_pad, L_blank, L_junk >>
    /\ LinesEnqueued(enqueued, F_a) = << Trimmed(L_pad), L_junk >>

Parseable(line) == parse_log_line(line) # None

RowsOf(mid) == { j \in 1..Len(rows) : rows[j].mid = mid }

\* one processor has consumed everything enqueued, nothing died on the way
ConsumedAll ==
    /\ used["crash"] = 0
    /\ used["foreign"] = 0
    /\ queue = << >>
    /\ result[1] = None

\* C2: when the messages enqueued all carry parseable lines and one
\* processor has consumed them all without a crash, the store holds exactly
\* one row per message, with the message's line and source_file and the
\* parser's log_type and timestamp for that line.
C2_OneRowPerMessage ==
    (ConsumedAll /\ \A i \in 1..Len(enqueued) : Parseable(EntryLine(enqueued[i]))) =>
        /\ Len(rows) = Len(enqueued)
        /\ \A i \in 1..Len(enqueued) :
               LET e == enqueued[i]
                   parsed == parse_log_line(EntryLine(e))
               IN  /\ Cardinality(RowsOf(e.mid)) = 1
                   /\ \A j \in RowsOf(e.mid) :
                          /\ rows[j].raw_line = EntryLine(e)
                          /\ rows[j].source_file = EntryFile(e)
                          /\ rows[j].log_type = parsed[K_log_type]
                          /\ rows[j].timestamp = parsed[K_timestamp]

\* two or more parseable messages enqueued and consumed
C2_Witness ==
    /\ ConsumedAll
    /\ \A i \in 1..Len(enqueued) : Parseable(EntryLine(enqueued[i]))
    /\ Len(enqueued) >= 2
    /\ Len(rows) = Len(enqueued)
    /\ rpc = "sleep"

\* processor 1 completes the iteration for the message it holds
Handles1 ==
    /\ ppc[1] = "got"
    /\ result[1] # None
    /\ result'[1] = None
    /\ used'["crash"] = used["crash"]

\* C3: the iteration for a message with an unparseable line writes no row,
\* leaves the store and the counter as they are and goes back to brpop.
C3_UnparseableDropped ==
    [][(/\ Handles1
        /\ Decodable(result[1].payload)
        /\ ~Parseable(json_loads(result[1].payload).line)) =>
           /\ rows' = rows
           /\ tableExists' = tableExists
           /\ total_processed' = total_processed
           /\ ppc'[1] = "brpop"]_vars

\* a message was dropped and a later one has been stored
C3_Witness ==
    /\ ppc[1] = "brpop"
    /\ \E m \in dropped : \E j \in 1..Len(rows) : rows[j].mid > m

\* C4: the iteration for a payload that does not decode to an object with
\* line and source_file writes no row and goes back to brpop.
C4_MalformedDropped ==
    [][(Handles1 /\ ~Decodable(result[1].payload)) =>
           /\ rows' = rows
           /\ ppc'[1] = "brpop"]_vars

\* C5: a failed open() does not end the reader.
C5_ReaderSurvivesOpenError ==
    (used["open_error"] > 0 /\ used["reader_restart"] = 0) => rpc # "dead"

InQueue(mid) == \E i \in 1..Len(queue) : queue[i].mid = mid

InFlight(mid) == \E p \in Processors : result[p] # None /\ result[p].mid = mid

\* C6: a message held by a processor that died before its INSERT was
\* committed is neither on the queue nor in the store nor held by a
\* processor in any later state.
C6_CrashLosesMessage ==
    \A m \in lost : ~InQueue(m) /\ ~InFlight(m) /\ RowsOf(m) = {}

\* the processor was killed with a message in hand, has been restarted
\* (it is running again) and has emptied the queue
C6_Witness ==
    /\ used["crash"] = 1
    /\ used["decode_error"] = 0
    /\ lost # {}
    /\ queue = << >>
    /\ ppc[1] = "got"
    /\ result[1] = None
    /\ rpc = "sleep"

\* the log files of the directory
LogFiles == { f \in DOMAIN disk : endswith(f, LOG_SUFFIX) }

\* the enqueues of line i of file f, all of them or those of reader run r
Enqueues(f, i) ==
    { n \in 1..Len(enqueued) :
          EntryFile(enqueued[n]) = f /\ enqueued[n].lineno = i }

EnqueuesInRun(f, i, r) == { n \in Enqueues(f, i) : enqueued[n].run = r }

NonBlankLines(f) == { i \in 1..Len(disk[f]) : Trimmed(disk[f][i]) # << >> }

\* C7: a reader that has finished a sweep has streamed every line of every
\* log file once in its own run, restarted or not and whatever the runs
\* before it streamed; and once a processor has consumed the queue, a
\* parseable line enqueued k times has k rows.
C7_RestartDuplicates ==
    /\ (rpc = "sleep" /\ used["open_error"] = 0) =>
           \A f \in LogFiles : \A i \in NonBlankLines(f) :
               Cardinality(EnqueuesInRun(f, i, used["reader_restart"])) = 1
    /\ (used["crash"] = 0 /\ queue = << >> /\ result[1] = None) =>
           \A f \in LogFiles : \A i \in NonBlankLines(f) :
               Parseable(Trimmed(disk[f][i])) =>
                   Cardinality({ j \in 1..Len(rows) :
                                   \E n \in Enqueues(f, i) :
                                       rows[j].mid = enqueued[n].mid })
                       = Cardinality(Enqueues(f, i))

\* a line streamed before and after a restart has two rows
C7_Witness ==
    /\ used["reader_restart"] = 1
    /\ used["crash"] = 0
    /\ rpc = "sleep"
    /\ queue = << >>
    /\ result[1] = None
    /\ \E f \in LogFiles : \E i \in NonBlankLines(f) :
           /\ Parseable(Trimmed(disk[f][i]))
           /\ Cardinality(Enqueues(f, i)) = 2
           /\ Cardinality({ j \in 1..Len(rows) :
                              rows[j].raw_line = Trimmed(disk[f][i]) }) >= 2

(***************************************************************************)
(* C11: the auth matcher                                                   *)
(***************************************************************************)
AllDigits(w) == Len(w) > 0 /\ \A i \in 1..Len(w) : w[i] \in Digits

\* the text between "sshd[" and "]:" of an auth line's third token
PidOf(tok) == SubSeq(tok, Len(W_sshd) + 1, Len(tok) - Len(W_close))

\* <timestamp> <hostname> sshd[<pid>]: <status> <auth_method> for <username>
\* from <source_ip> port <source_port>, whatever the status token is and
\* whatever follows the port
AuthGrammar(line) ==
    LET toks == Tokens(line) IN
        /\ Len(line) > 0
        /\ line[1] \notin Whitespace
        /\ Len(toks) >= 11
        /\ Len(toks[3]) > Len(W_sshd) + Len(W_close)
        /\ StartsAt(toks[3], 0, W_sshd)
        /\ StartsAt(toks[3], Len(toks[3]) - Len(W_close), W_close)
        /\ AllDigits(PidOf(toks[3]))
        /\ toks[6] = W_for
        /\ toks[8] = W_from
        /\ toks[10] = W_port
        /\ AllDigits(toks[11])

AuthStatus(line) == Tokens(line)[4]

KnownStatus(line) == AuthStatus(line) \in { W_Accepted, W_Failed }

\* the record the auth matcher is to return for a line of the grammar
AuthFields(line) ==
    LET toks == Tokens(line) IN
        (K_log_type :> V_auth) @@ (K_timestamp :> toks[1]) @@
        (K_hostname :> toks[2]) @@ (K_pid :> PidOf(toks[3])) @@
        (K_status :> toks[4]) @@ (K_auth_method :> toks[5]) @@
        (K_username :> toks[7]) @@ (K_source_ip :> toks[9]) @@
        (K_source_port :> toks[11])

\* what makes the firewall matcher accept a line: an "=" and three segments
FirewallShape(line) ==
    /\ Contains(line, "=")
    /\ Cardinality({ i \in 1..Len(line) : line[i] = "|" }) >= 2

\* C11 as stated: on a line of the auth grammar the auth matcher accepts
\* exactly the statuses Accepted and Failed and returns the tokens at their
\* positions; with any other status the line is unparseable overall.
C11_OtherStatusUnparseable ==
    AuthGrammar(pLine) =>
        /\ pFn = "auth" =>
               IF KnownStatus(pLine) THEN pResult = AuthFields(pLine)
               ELSE pResult = None
        /\ (pFn = "parse_log_line" /\ ~KnownStatus(pLine)) => pResult = None

\* C11, amended: on a line of the auth grammar the auth matcher accepts
\* exactly the statuses Accepted and Failed and returns the tokens at their
\* positions; with any other status the auth matcher fails, and the line is
\* unparseable overall unless the firewall matcher claims it (the line holds
\* an "=" and at least two "|"), in which case the firewall result is
\* returned.
C11_OtherStatusFallsThrough ==
    AuthGrammar(pLine) =>
        /\ pFn = "auth" =>
               IF KnownStatus(pLine) THEN pResult = AuthFields(pLine)
               ELSE pResult = None
        /\ (pFn = "parse_log_line" /\ ~KnownStatus(pLine)) =>
               IF FirewallShape(pLine)
               THEN pResult # None /\ pResult = parse_firewall(pLine)
               ELSE pResult = None

\* an auth line with an unknown status that the firewall matcher claimed
C11_Witness ==
    /\ pFn = "parse_log_line"
    /\ AuthGrammar(pLine)
    /\ ~KnownStatus(pLine)
    /\ FirewallShape(pLine)
    /\ pResult # None

(***************************************************************************)
(* Properties of start-up and of the store (DbSpec)                        *)
(***************************************************************************)

Connecting(p) == ppc[p] \in {"connect", "init_connect"}

\* processor p makes one attempt to connect in this step
Attempts(p) ==
    /\ Connecting(p)
    /\ (ppc'[p] # ppc[p] \/ attempt'[p] # attempt[p])

\* n waits of two seconds each
Waits(n) == [i \in 1..n |-> 2]

\* C12: get_pg_connection makes at most five attempts; an attempt that
\* succeeds returns at once (the caller goes on to its next statement); a
\* failed attempt other than the fifth is followed by a wait of 2 seconds,
\* the same each time, and then by the next attempt; the fifth failure
\* raises without a wait and terminates the process.  attempt[p] is the
\* number of failed attempts the call has made.
C12_ConnectRetries ==
    [][\A p \in Processors :
         Attempts(p) =>
             /\ attempt[p] < 5
             /\ SleptInCall(p) = Waits(attempt[p])
             /\ pgUp =>
                    /\ ppc'[p] = (IF ppc[p] = "connect" THEN "init_connect"
                                  ELSE "init_create")
                    /\ slept'[p] = Waits(attempt[p])
             /\ (~pgUp /\ attempt[p] < 4) =>
                    /\ ppc'[p] = ppc[p]
                    /\ attempt'[p] = attempt[p] + 1
                    /\ slept'[p] = Waits(attempt[p] + 1)
             /\ (~pgUp /\ attempt[p] = 4) =>
                    /\ ppc'[p] = "dead"
                    /\ slept'[p] = Waits(4)]_vars

\* the processor has terminated on its fifth failed attempt, after four waits
C12_Witness ==
    /\ ppc[1] = "dead"
    /\ ~pgUp
    /\ attempt[1] = 4
    /\ slept[1] = Waits(4)

\* processor p calls brpop in this step
Polls(p) == ppc[p] # "got" /\ ppc'[p] = "got"

\* processor p receives a message in this step
Receives(p) == result'[p] # None /\ result'[p] # result[p]

\* C13: in every run of the processor no dequeue is made, and no message
\* leaves the queue, before that run's init_db has created the logs table
\* if absent and committed; so a run whose schema creation or connection
\* fails never dequeues.
C13_SchemaBeforeConsuming ==
    [][/\ \A p \in Processors :
              (Polls(p) \/ Receives(p)) => (ensured[p] /\ tableExists)
       /\ Len(queue') < Len(queue) =>
              \E p \in Processors : Receives(p) /\ ensured[p]]_vars

\* a run has ended in init_db while messages were waiting
C13_Witness ==
    /\ ppc[1] = "dead"
    /\ ~ensured[1]
    /\ queue # << >>
    /\ rows = << >>

(***************************************************************************)
(* Properties of the processor's loop (Spec)                               *)
(***************************************************************************)

\* what a poll without a message must leave alone
TimeoutFrame ==
    /\ queue' = queue
    /\ rows' = rows
    /\ tableExists' = tableExists
    /\ total_processed' = total_processed
    /\ lost' = lost
    /\ dropped' = dropped

\* C14: a brpop on an empty queue returns None after its timeout and changes
\* neither the queue, the store nor total_processed; the processor then, if
\* it is not killed from outside, goes back to brpop without an error and
\* without terminating, again leaving queue, store and counter alone.
C14_TimeoutIsNormal ==
    [][\A p \in Processors :
         /\ (Polls(p) /\ queue = << >>) =>
                /\ result'[p] = None
                /\ TimeoutFrame
         /\ (ppc[p] = "got" /\ result[p] = None /\ ppc'[p] # "got"
                /\ used'["crash"] = used["crash"]) =>
                /\ ppc'[p] = "brpop"
                /\ used' = used
                /\ TimeoutFrame]_vars

\* the processor holds the None of a timed-out brpop after it has stored rows
C14_Witness ==
    /\ ppc[1] = "got"
    /\ result[1] = None
    /\ queue = << >>
    /\ total_processed[1] > 0

(***************************************************************************)
(* Properties of several processors on one queue (ConcSpec)                *)
(***************************************************************************)

\* where the message with identity mid is: how often on the queue, in how
\* many processors' hands, in how many rows, and whether dropped
Places(mid) ==
    Cardinality({ i \in 1..Len(queue) : queue[i].mid = mid })
        + Cardinality({ p \in Processors : result[p] # None /\ result[p].mid = mid })
        + Cardinality(RowsOf(mid))
        + (IF mid \in dropped THEN 1 ELSE 0)

\* the sum of the total_processed counters of the processors ps
RECURSIVE TotalProcessed(_)
TotalProcessed(ps) ==
    IF ps = {} THEN 0
    ELSE LET p == CHOOSE q \in ps : TRUE
         IN  total_processed[p] + TotalProcessed(ps \ {p})

\* C15: with several processors on the queue and none of them killed, every
\* enqueued message is at any time in exactly one place: still on the queue,
\* in the hands of exactly one processor, stored as exactly one row (its
\* line is parseable) or dropped (its line is not); so no message is handed
\* out twice and a parseable message never has two rows, and once the
\* messages are consumed each parseable one has exactly one row.
C15_ExactlyOneConsumer ==
    /\ \A p \in Processors : ppc[p] # "dead"
    /\ lost = {}
    /\ \A i \in 1..Len(enqueued) :
           LET e == enqueued[i] IN
               /\ Places(e.mid) = 1
               /\ RowsOf(e.mid) # {} => Parseable(EntryLine(e))
               /\ e.mid \in dropped => ~Parseable(EntryLine(e))
               /\ (Parseable(EntryLine(e)) /\ ~InQueue(e.mid) /\ ~InFlight(e.mid)) =>
                      Cardinality(RowsOf(e.mid)) = 1
    /\ \A j \in 1..Len(rows) : \E i \in 1..Len(enqueued) : enqueued[i].mid = rows[j].mid
    /\ Len(rows) = TotalProcessed(Processors)

\* two processors have each stored a row of the same file and the queue is
\* consumed
C15_Witness ==
    /\ total_processed[1] > 0
    /\ total_processed[2] > 0
    /\ queue = << >>
    /\ \A p \in Processors : result[p] = None
    /\ rpc = "sleep"

\* processor p leaves the statements of init_db after its connection
LeavesInitDb(p) == ppc[p] = "init_create" /\ ppc'[p] # "init_create"

\* C16: init_db is idempotent.  A call that completes leaves the logs table
\* in existence; a call made when the table exists already (so also the
\* second of two calls in sequence) leaves the table and the rows stored in
\* it exactly as they were, and so does a call that fails.
C16_InitDbIdempotent ==
    [][\A p \in Processors :
         LeavesInitDb(p) =>
             /\ ppc'[p] = "brpop" => tableExists'
             /\ tableExists => (tableExists' /\ rows' = rows)
             /\ ppc'[p] = "dead" => (tableExists' = tableExists /\ rows' = rows)]_vars

\* a restarted processor has run init_db again on a table that holds rows
C16_Witness ==
    /\ used["outage"] = 1
    /\ ensured[1]
    /\ ppc[1] = "brpop"
    /\ total_processed[1] = 0
    /\ rows # << >>

(***************************************************************************)
(* Properties of the reader's messages and progress (ReaderSpec)           *)
(***************************************************************************)

\* the QueueMessage invariant for a payload put on the queue by the reader
QueueMessageOk(payload) ==
    /\ json_valid(payload)
    /\ DOMAIN json_loads(payload) = {"line", "source_file"}
    /\ LET line == json_loads(payload).line
           name == json_loads(payload).source_file
       IN  /\ Len(line) > 0
           /\ line[1] \notin Whitespace
           /\ line[Len(line)] \notin Whitespace
           /\ name \in Files
           /\ ~Contains(name, "/")
           /\ Len(name) >= 4
           /\ SubSeq(name, Len(name) - 3, Len(name)) = << ".", "l", "o", "g" >>

\* C17: every message the reader has put on the queue has a non-empty line
\* without leading or trailing whitespace and, as source_file, the bare name
\* of a file of the directory that ends in .log, never a path; a file whose
\* name does not end in .log has produced no message.
C17_QueueMessageInvariant ==
    /\ \A i \in 1..Len(enqueued) : QueueMessageOk(enqueued[i].payload)
    /\ \A i \in 1..Len(queue) : QueueMessageOk(queue[i].payload)
    /\ \A i \in 1..Len(enqueued) : EntryFile(enqueued[i]) # F_txt

\* a sweep over a directory with a.txt and a .log file with padded and blank
\* lines has ended and has produced messages
C17_Witness ==
    /\ rpc = "sleep"
    /\ F_a \in DOMAIN disk
    /\ F_txt \in DOMAIN disk
    /\ \E i \in 1..Len(disk[F_a]) :
           disk[F_a][i] # << >> /\ disk[F_a][i][1] \in Whitespace
    /\ \E i \in 1..Len(disk[F_txt]) : Trimmed(disk[F_txt][i]) # << >>
    /\ Len(enqueued) >= 2

(***************************************************************************)
(* Order (Spec)                                                            *)
(***************************************************************************)

\* one reader that was not restarted, one processor that was not killed,
\* and nobody else on the queue
OneReaderOneProcessor ==
    /\ used["reader_restart"] = 0
    /\ used["crash"] = 0
    /\ used["foreign"] = 0

\* the log entry of the enqueue of the message with identity mid
EntryOf(mid) == enqueued[CHOOSE i \in 1..Len(enqueued) : enqueued[i].mid = mid]

\* the position in enqueued of the message with identity mid
EnqueuePos(mid) == CHOOSE i \in 1..Len(enqueued) : enqueued[i].mid = mid

\* C18: with one reader (no restart) and one processor (no crash) the
\* queue, read from the end brpop takes from, holds the messages enqueued
\* last in the order of their enqueue, so the processor receives messages
\* in that order; rows are inserted in the order their messages were
\* enqueued, and the rows of one file in the order of its lines.
C18_FifoEndToEnd ==
    OneReaderOneProcessor =>
        /\ \A i \in 1..Len(queue) :
               queue[Len(queue) + 1 - i].mid
                   = enqueued[Len(enqueued) - Len(queue) + i].mid
        /\ result[1] # None =>
               EnqueuePos(result[1].mid) = Len(enqueued) - Len(queue)
        /\ \A j, k \in 1..Len(rows) :
               j < k =>
                   /\ EnqueuePos(rows[j].mid) < EnqueuePos(rows[k].mid)
                   /\ rows[j].source_file = rows[k].source_file =>
                          EntryOf(rows[j].mid).lineno < EntryOf(rows[k].mid).lineno

\* the rows of two different lines of one file are stored and the queue is
\* consumed
C18_Witness ==
    /\ OneReaderOneProcessor
    /\ Len(rows) >= 2
    /\ rows[1].source_file = rows[2].source_file
    /\ rows[1].raw_line # rows[2].raw_line
    /\ queue = << >>

\* the reader process is the same before and after this step
SameReaderRun == used'["reader_restart"] = used["reader_restart"]

\* the enqueue log has no two entries for the same line of the same file in
\* the same run of the reader
NoLineTwice(log) ==
    \A m, n \in 1..Len(log) :
        (m < n /\ log[m].run = log[n].run /\ EntryFile(log[m]) = EntryFile(log[n]))
            => log[m].lineno # log[n].lineno

\* C19: within one run of the reader, processed_files only grows; a file is
\* added to it in the step that closes that file after its last line, when
\* every non-blank line of the file (if it was not removed from the
\* directory meanwhile) has been enqueued once in this run; a file that is
\* in processed_files is not opened and contributes no message; and no line
\* of a file is enqueued twice in one run.
C19_ProgressOnlyAfterStreaming ==
    [][/\ SameReaderRun => processed_files \subseteq processed_files'
       /\ \A f \in Files :
              (/\ path_join(LOG_DIR, f) \notin processed_files
               /\ path_join(LOG_DIR, f) \in processed_files') =>
                  /\ fh.name = f
                  /\ fh.pos = Len(fh.lines)
                  /\ ~fh.unlinked =>
                         /\ fh.lines = disk[f]
                         /\ \A i \in NonBlankLines(f) :
                                Cardinality(EnqueuesInRun(f, i, used["reader_restart"])) = 1
       /\ (fh = NoFile /\ fh' # NoFile) =>
              path_join(LOG_DIR, fh'.name) \notin processed_files
       /\ Len(enqueued') > Len(enqueued) =>
              /\ path_join(LOG_DIR, EntryFile(enqueued'[Len(enqueued')]))
                     \notin processed_files
              /\ fh.name = EntryFile(enqueued'[Len(enqueued')])
       /\ NoLineTwice(enqueued')]_vars

\* a later sweep has passed over a.log, which is in processed_files, on its
\* way to b.log, which an earlier sweep streamed and added as well
C19_Witness ==
    /\ used["reader_restart"] = 0
    /\ rpc = "for_file"
    /\ ri = 2
    /\ listing[1] = F_a
    /\ { path_join(LOG_DIR, F_a), path_join(LOG_DIR, F_b) } \subseteq processed_files
    /\ \E n \in 1..Len(enqueued) : EntryFile(enqueued[n]) = F_b

(***************************************************************************)
(* Progress of the reader (LiveReaderSpec)                                 *)
(***************************************************************************)

\* C20: the reader sweeps for ever: it comes to the end of a sweep, idles
\* and starts the next sweep again and again; so, when the reader is
\* scheduled fairly and no I/O error occurs, every .log file that is in the
\* directory at any time is eventually in processed_files (which, by C19,
\* it enters when its lines have been streamed).
C20_EveryLogFileEventuallyStreamed ==
    /\ []<>(rpc = "sleep")
    /\ []<>(rpc = "listdir")
    /\ \A f \in Files :
           (f \in DOMAIN disk /\ endswith(f, LOG_SUFFIX))
               ~> (path_join(LOG_DIR, f) \in processed_files)

\* a file that appeared while the reader ran is in processed_files
C20_Witness ==
    /\ used["create"] = 1
    /\ F_b \in DOMAIN disk
    /\ path_join(LOG_DIR, F_b) \in processed_files
    /\ \E n \in 1..Len(enqueued) : EntryFile(enqueued[n]) = F_b

(***************************************************************************)
(* Progress of the processor (LiveProcSpec)                                *)
(***************************************************************************)

\* the identities a message can have
Mids ==
    LET longest == CHOOSE n \in { Len(c) : c \in InitContents } :
                       \A c \in InitContents : Len(c) <= n
    IN  1..(longest + MaxEvents)

\* every message that is ever on the queue is eventually a row or dropped,
\* and the processor is at its brpop again and again
EveryMessageConsumed ==
    /\ \A m \in Mids : InQueue(m) ~> (RowsOf(m) # {} \/ m \in dropped)
    /\ []<>(ppc[1] = "brpop")

\* C21: with reader and processor scheduled fairly, store and broker
\* reachable and the processor never ended (not killed, and not by an
\* exception of its own), a poll that finds nothing never blocks it: every
\* message that is ever on the queue is eventually dequeued and is then a
\* row or dropped, and the processor is back at its brpop again and again.
C21_NeverBlocked ==
    [](ppc[1] # "dead") => EveryMessageConsumed

\* the processor has consumed the queue, a message stored and a message
\* dropped, and is back at its brpop
C21_Witness ==
    /\ ppc[1] = "brpop"
    /\ queue = << >>
    /\ rows # << >>
    /\ dropped # {}
    /\ rpc = "sleep"

(***************************************************************************)
(* C22: what the firewall matcher rejects                                  *)
(***************************************************************************)

\* the number of pipe-delimited segments of a line
SegmentCount(line) == Cardinality({ i \in 1..Len(line) : line[i] = "|" }) + 1

\* the text of the line before its first "|"
FirstSegment(line) ==
    IF Contains(line, "|") THEN SubSeq(line, 1, IndexOf(line, "|") - 1) ELSE line

\* the text of the line after its first "|"
AfterFirstSegment(line) ==
    IF Contains(line, "|") THEN SubSeq(line, IndexOf(line, "|") + 1, Len(line))
    ELSE << >>

\* C22: the firewall matcher rejects a line exactly when the line has no
\* "|", or no "=", or fewer than three pipe-delimited segments; it accepts
\* every other line, also one whose only "=" is in the first segment, and
\* a segment after the first that has no "=" adds nothing to the result and
\* does not make the line rejected.
C22_FirewallRejectsExactly ==
    pFn = "firewall" =>
        /\ pResult = None <=>
               \/ ~Contains(pLine, "|")
               \/ ~Contains(pLine, "=")
               \/ SegmentCount(pLine) < 3
        /\ pResult # None =>
               LET parts == split(pLine, "|")
               IN  DOMAIN pResult =
                       {K_log_type, K_timestamp}
                           \cup { split1(parts[i], "=")[1] :
                                      i \in { j \in 2..Len(parts) :
                                                  Contains(parts[j], "=") } }

\* the matcher has accepted a line whose only "=" is in the first segment:
\* the later segments were skipped
C22_Witness ==
    /\ pFn = "firewall"
    /\ pResult # None
    /\ Contains(FirstSegment(pLine), "=")
    /\ ~Contains(AfterFirstSegment(pLine), "=")
    /\ DOMAIN pResult = {K_log_type, K_timestamp}

(***************************************************************************)
(* C23: conservation of messages                                           *)
(***************************************************************************)

\* no processor has ended, killed or by an exception of its own
NoProcessorEnded ==
    /\ used["crash"] = 0
    /\ used["decode_error"] = 0
    /\ lost = {}
    /\ \A p \in Processors : ppc[p] # "dead"

\* the messages pushed on the queue so far, by the reader or anybody else
PushedSoFar == nextMid - 1

\* the processors that hold a message
Holding == { p \in Processors : result[p] # None }

\* C23: in every state reached without a processor having ended (the
\* queue is never flushed), the number of messages pushed so far is the
\* number on the queue plus the number of processors holding one plus the
\* number of rows plus the number of messages dropped as unparseable; and
\* there are never more rows than messages pushed.
C23_Conservation ==
    NoProcessorEnded =>
        /\ PushedSoFar = Len(queue) + Cardinality(Holding) + Len(rows)
                             + Cardinality(dropped)
        /\ Len(rows) <= PushedSoFar
        /\ Len(enqueued) <= PushedSoFar

\* a row is stored, a message was dropped and a third message is on the
\* queue
C23_Witness ==
    /\ NoProcessorEnded
    /\ rows # << >>
    /\ dropped # {}
    /\ queue # << >>
    /\ PushedSoFar = 3

(***************************************************************************)
(* C24: consistency of a stored row                                        *)
(***************************************************************************)

\* the line of the message, pushed by the reader, that row j was made from
LineOfRow(j) ==
    LET e == enqueued[CHOOSE i \in 1..Len(enqueued) : enqueued[i].mid = rows[j].mid]
    IN  json_loads(e.payload).line

\* C24: in every stored row the log_type and timestamp columns are the
\* log_type and timestamp entries of the row's own parsed_data, raw_line is
\* the line of the message the row was made from, and parsed_data is the
\* record that parse_log_line returns for raw_line.
C24_RowConsistent ==
    \A j \in 1..Len(rows) :
        /\ json_valid(rows[j].parsed_data)
        /\ K_log_type \in DOMAIN json_loads(rows[j].parsed_data)
        /\ K_timestamp \in DOMAIN json_loads(rows[j].parsed_data)
        /\ rows[j].log_type = json_loads(rows[j].parsed_data)[K_log_type]
        /\ rows[j].timestamp = json_loads(rows[j].parsed_data)[K_timestamp]
        /\ \E i \in 1..Len(enqueued) : enqueued[i].mid = rows[j].mid
        /\ rows[j].raw_line = LineOfRow(j)
        /\ json_loads(rows[j].parsed_data) = parse_log_line(rows[j].raw_line)

\* the row of a firewall line whose log_type pair has replaced the
\* matcher's own log_type: the column and parsed_data agree on it
C24_Witness ==
    \E j \in 1..Len(rows) :
        /\ rows[j].log_type \notin {V_firewall, V_dns, V_auth}
        /\ rows[j].log_type = json_loads(rows[j].parsed_data)[K_log_type]
        /\ rows[j].raw_line = L_over

(***************************************************************************)
(* C25: lines appended to a processed file                                 *)
(***************************************************************************)

\* the entries of the enqueue log made by run r of the reader
RunLog(log, r) == SelectSeq(log, LAMBDA e : e.run = r)

\* C25: when the reader adds a file to processed_files, the messages of
\* this run that carry the file's name are the non-blank lines, trimmed and
\* in order, that the file held up to its end; and from then on, as long as
\* the reader is not restarted, the messages carrying that name stay as
\* they are whatever is appended to the file.
C25_AppendedLinesNotEnqueued ==
    [][\A f \in Files :
         LET r == used["reader_restart"] IN
             /\ (/\ path_join(LOG_DIR, f) \notin processed_files
                 /\ path_join(LOG_DIR, f) \in processed_files') =>
                    LinesEnqueued(RunLog(enqueued', r), f) = NonBlankTrimmed(fh.lines)
             /\ (path_join(LOG_DIR, f) \in processed_files /\ SameReaderRun) =>
                    LinesEnqueued(RunLog(enqueued', r), f)
                        = LinesEnqueued(RunLog(enqueued, r), f)]_vars

\* a.log is in processed_files and holds a non-blank line, appended since,
\* that no message carries; the reader is at the start of a sweep
C25_Witness ==
    /\ used["reader_restart"] = 0
    /\ used["append"] = 1
    /\ rpc = "listdir"
    /\ path_join(LOG_DIR, F_a) \in processed_files
    /\ Len(NonBlankTrimmed(disk[F_a])) = Len(LinesEnqueued(enqueued, F_a)) + 1

=============================================================================
